---- MODULE Spec2Model ----
(***************************************************************************)
(* The order ledger of NeuropacsScriptedModuleWidget: the in-memory        *)
(* neuropacsOrderMap, the JSON document persisted at neuropacsConfigPath,  *)
(* the order table shown to the user, and the handlers that change them.   *)
(*                                                                         *)
(* A Python dict keeps insertion order, and populateOrderTable depends on  *)
(* it, so the ledger is a sequence of [order, patient] entries; the JSON   *)
(* text is a sequence of <<name, value>> members.                          *)
(***************************************************************************)
EXTENDS Integers, Sequences, FiniteSets, TLC

VARIABLES
    neuropacsOrderMap,    \* self.neuropacsOrderMap
    neuropacsConfigPath,  \* self.neuropacsConfigPath (and QSettings neuropacs/configPath)
    files,                \* the file system: path -> file content
    tableWidget,          \* self.ui.tableWidget: the rows of the listing
    infoLabel,            \* self.ui.infoLabel
    actionsEnabled,       \* refresh/submit buttons enabled, validate button disabled
    issued,               \* history: the ids new_job has returned so far
    ioFaults,             \* history: how many faults of the file system have happened
    last,                 \* history: what the last handler did
    loadedPath,           \* history: the path configure_config took the ledger from
    running               \* the handlers in progress, innermost last

vars == <<neuropacsOrderMap, neuropacsConfigPath, files, tableWidget, infoLabel,
          actionsEnabled, issued, ioFaults, last, loadedPath, running>>

---------------------------------------------------------------------------
\* Bounds and value sets

MaxJobs == 2
MaxIoFaults == 1
MaxExp == 2
MaxDepth == 2

JobNames == <<"j1", "j2", "j3", "j4">>
JobIds == {JobNames[i] : i \in 1..MaxJobs}
OrderIds == JobIds \cup {"TEST"}
Patients == {"Alice", "Bob"}
Paths == {"p1", "p2"}

\* what a write to the ledger file can do: succeed, or fail after open(path, 'w')
\* has truncated the file (the write is a direct overwrite)
IoOutcomes == {"ok", "write_error"}

\* the status objects check_status returns
StatusObjs == {[info |-> "Finished", progress |-> 100]}

\* the messages of the errors check_status raises
ExpiredMsg == "Status check failed: Bucket not found"
NetworkMsg == "Status check failed: Connection timed out"

\* the outcomes of one check_status call
StatusOutcomes ==
    {[raised |-> FALSE, msg |-> "", info |-> s.info, progress |-> s.progress] : s \in StatusObjs}
    \cup {[raised |-> TRUE, msg |-> m, info |-> "", progress |-> 0] : m \in {ExpiredMsg, NetworkMsg}}

---------------------------------------------------------------------------
\* The dict operations the code uses

Keys(m) == {m[i].order : i \in 1..Len(m)}

Has(m, k) == k \in Keys(m)

Get(m, k) == (CHOOSE e \in {m[i] : i \in 1..Len(m)} : e.order = k).patient

\* d[k] = v
DictSet(m, k, v) ==
    IF Has(m, k)
    THEN [i \in 1..Len(m) |-> IF m[i].order = k THEN [order |-> k, patient |-> v] ELSE m[i]]
    ELSE Append(m, [order |-> k, patient |-> v])

\* del d[k]
DictDel(m, k) == SelectSeq(m, LAMBDA e : e.order # k)

\* no key appears twice
UniqueKeys(m) == \A i, j \in 1..Len(m) : m[i].order = m[j].order => i = j

---------------------------------------------------------------------------
\* Files and JSON

AbsentFile == [kind |-> "absent", members |-> <<>>]
EmptyFile == [kind |-> "empty", members |-> <<>>]
CorruptFile == [kind |-> "corrupt", members |-> <<>>]

json_dump(m) ==
    [kind |-> "json", members |-> [i \in 1..Len(m) |-> <<m[i].order, m[i].patient>>]]

RECURSIVE LoadMembers(_, _, _)
LoadMembers(members, i, acc) ==
    IF i > Len(members) THEN acc
    ELSE LoadMembers(members, i + 1, DictSet(acc, members[i][1], members[i][2]))

\* (mutant) the last member of the document is not read
MutLoadDropsLast(file) ==
    LoadMembers(SubSeq(file.members, 1, Len(file.members) - 1), 1, <<>>)

json_load(file) == LoadMembers(file.members, 1, <<>>)

\* with open(path, 'w') as f: json.dump(m, f). When open raises the file is as
\* it was; when the write raises the file has been truncated
WriteJson(fs, path, m, io) ==
    IF io = "ok" THEN [fs EXCEPT ![path] = json_dump(m)]
    ELSE IF io = "open_error" THEN fs
    ELSE [fs EXCEPT ![path] = EmptyFile]

---------------------------------------------------------------------------
\* The state a handler works on: w.exc is the exception in flight ("" if none)

NoLabel == [msg |-> "", order |-> ""]
Label(msg) == [msg |-> msg, order |-> ""]
OrderLabel(msg, order) == [msg |-> msg, order |-> order]

NoCycle == [ran |-> FALSE, map |-> <<>>, oc |-> <<>>, completed |-> FALSE, exp |-> <<>>]

Begin ==
    [map |-> neuropacsOrderMap, path |-> neuropacsConfigPath, files |-> files,
     table |-> tableWidget, label |-> infoLabel, exc |-> "",
     log |-> <<>>, cyc |-> NoCycle, dialog |-> FALSE, calls |-> <<>>]

\* a new widget: __init__ leaves the map empty and the table without rows
FreshWidget(fs, path) ==
    [map |-> <<>>, path |-> path, files |-> fs, table |-> <<>>, label |-> NoLabel,
     exc |-> "", log |-> <<>>, cyc |-> NoCycle, dialog |-> FALSE, calls |-> <<>>]

\* statement sequencing: F runs unless an exception is in flight
Then(w, F(_)) == IF w.exc # "" THEN w ELSE F(w)

SetInfoLabel(w, l) == IF w.exc # "" THEN w ELSE [w EXCEPT !.label = l]

---------------------------------------------------------------------------
\* Persistence

\* the file holds a JSON document with exactly the entries of the mapping m
Persisted(file, m) == file.kind = "json" /\ json_load(file) = m

\* what a write leaves in the handler's log: whether the file then holds the mapping
Written(by, path, io, fs, m) ==
    [by |-> by, path |-> path, io |-> io, written |-> Persisted(fs[path], m)]

\* save_config: open(self.neuropacsConfigPath, 'w'), json.dump(self.neuropacsOrderMap)
save_config(w, io) ==
    IF w.exc # "" THEN w
    ELSE LET fs == WriteJson(w.files, w.path, w.map, io)
         IN [w EXCEPT !.files = fs,
                      !.log = Append(@, Written("save_config", w.path, io, fs, w.map)),
                      !.exc = IF io = "ok" THEN "" ELSE "OSError"]

\* (mutant) the new configuration is an empty object
MutEmptyConfig == <<>>

default_config == <<[order |-> "TEST", patient |-> "TEST"]>>

\* create_config: the map is replaced before the file is opened; a failed write is
\* shown (errorDisplay) and re-raised
create_config(w, path, io) ==
    IF w.exc # "" THEN w
    ELSE LET fs == WriteJson(w.files, path, default_config, io)
         IN [w EXCEPT !.map = default_config,
                      !.files = fs,
                      !.log = Append(@, Written("create_config", path, io, fs, default_config)),
                      !.dialog = @ \/ io # "ok",
                      !.exc = IF io = "ok" THEN "" ELSE "OSError"]

\* load_config: json.load of an existing file; otherwise "{}" is appended to the
\* file at self.neuropacsConfigPath
load_config(w, path) ==
    IF w.exc # "" THEN w
    ELSE IF w.files[path].kind # "absent"
    THEN IF w.files[path].kind = "json"
         THEN [w EXCEPT !.map = json_load(w.files[path])]
         ELSE [w EXCEPT !.exc = "JSONDecodeError"]
    ELSE [w EXCEPT !.files[w.path] =
              IF @.kind \in {"absent", "empty"} THEN json_dump(<<>>) ELSE CorruptFile]

\* except Exception as e: slicer.util.errorDisplay(...)
CatchErrorDisplay(w) ==
    IF w.exc # "" THEN [w EXCEPT !.exc = "", !.dialog = TRUE] ELSE w

\* configure_config: dir is what the directory checks find
DirStates == {"ok", "makedirs_error", "not_writable"}

configure_config(w, path, dir, io) ==
    IF dir # "ok" THEN [w EXCEPT !.dialog = TRUE]
    ELSE IF w.files[path].kind # "absent"
    THEN CatchErrorDisplay(IF w.files[path].kind = "empty"
                           THEN create_config(w, path, io)
                           ELSE load_config(w, path))
    ELSE CatchErrorDisplay(create_config(w, path, io))

\* (mutant) the entry is added but the map is not saved
MutStoreWithoutSave(w, patientId, orderId, io) ==
    IF w.exc # "" THEN w
    ELSE [w EXCEPT !.map = DictSet(w.map, orderId, patientId)]

\* storeNeuropacsOrder
storeNeuropacsOrder(w, patientId, orderId, io) ==
    IF w.exc # "" THEN w
    ELSE save_config([w EXCEPT !.map = DictSet(w.map, orderId, patientId)], io)

\* the loop of __deleteExpiredOrders
RECURSIVE DeleteEach(_, _, _)
DeleteEach(m, expired_orders, i) ==
    IF i > Len(expired_orders) THEN m
    ELSE DeleteEach(IF Has(m, expired_orders[i]) THEN DictDel(m, expired_orders[i]) ELSE m,
                    expired_orders, i + 1)

\* (mutant) the map is saved after each removal, not once after all
RECURSIVE MutSaveEach(_, _, _, _)
MutSaveEach(w, expired_orders, io, i) ==
    IF i > Len(expired_orders) \/ w.exc # "" THEN w
    ELSE MutSaveEach(
             IF Has(w.map, expired_orders[i])
             THEN save_config([w EXCEPT !.map = DictDel(w.map, expired_orders[i])], io)
             ELSE w,
             expired_orders, io, i + 1)

MutSavePerOrder(w, expired_orders, io) == MutSaveEach(w, expired_orders, io, 1)

\* __deleteExpiredOrders
deleteExpiredOrders(w, expired_orders, io) ==
    IF w.exc # "" THEN w
    ELSE save_config([w EXCEPT !.map = DeleteEach(w.map, expired_orders, 1)], io)

---------------------------------------------------------------------------
\* The refresh cycle

\* (mutant) every failed status query counts as expiry
MutAnyErrorExpires(msg) == msg # ""

\* if ("Bucket not found") in str(e)
IsExpirySignal(msg) == msg = ExpiredMsg

OutcomeKind(o) ==
    IF ~o.raised THEN "ok" ELSE IF o.msg = ExpiredMsg THEN "expired" ELSE "error"

BlankRow == [order |-> "", patient |-> "", info |-> "", progress |-> 0, from |-> ""]

\* QTableWidget.setRowCount: rows beyond n are dropped, missing rows are added
\* blank, and the rows that remain keep their items
setRowCount(t, n) ==
    IF n <= Len(t) THEN SubSeq(t, 1, n)
    ELSE t \o [i \in 1..(n - Len(t)) |-> BlankRow]

Unbound == [bound |-> FALSE, info |-> "", progress |-> 0, from |-> ""]

\* the for loop of populateOrderTable, from the i-th entry on. st.status is the
\* local variable status: it is bound by the first check_status that returns and
\* keeps that value when a later check_status raises
RECURSIVE FillRows(_, _, _, _)
FillRows(m, oc, i, st) ==
    IF i > Len(m) \/ st.exc # "" THEN st
    ELSE LET order == m[i].order
             patientId == m[i].patient
             o == oc[order]
         IN IF o.raised /\ IsExpirySignal(o.msg)
            THEN FillRows(m, oc, i + 1, [st EXCEPT !.exp = Append(@, order)])
            ELSE LET status == IF o.raised THEN st.status
                               ELSE [bound |-> TRUE, info |-> o.info,
                                     progress |-> o.progress, from |-> order]
                 IN IF ~status.bound
                    THEN [st EXCEPT !.exc = "UnboundLocalError"]
                    ELSE FillRows(m, oc, i + 1,
                             [st EXCEPT !.status = status,
                                        !.table[st.rowCount + 1] =
                                            [order |-> order, patient |-> patientId,
                                             info |-> status.info,
                                             progress |-> status.progress,
                                             from |-> status.from],
                                        !.rowCount = @ + 1])

\* populateOrderTable: oc gives the outcome of check_status for each tracked order
populateOrderTable(w, oc, io) ==
    IF w.exc # "" THEN w
    ELSE LET st == FillRows(w.map, oc, 1,
                       [table |-> setRowCount(w.table, Len(w.map)), rowCount |-> 0,
                        exp |-> <<>>, status |-> Unbound, exc |-> ""])
             w1 == [w EXCEPT !.table = st.table,
                             !.exc = st.exc,
                             !.cyc = [ran |-> TRUE, map |-> w.map,
                                      oc |-> [k \in Keys(w.map) |-> OutcomeKind(oc[k])],
                                      completed |-> st.exc = "",
                                      exp |-> IF st.exc = "" THEN st.exp ELSE <<>>]]
         IN deleteExpiredOrders(w1, st.exp, io)

---------------------------------------------------------------------------
\* The handlers, as functions of the state they start from and of what the
\* environment answers

\* except Exception as e: the label is set and the exception is logged
CatchLabel(w, l) == IF w.exc # "" THEN [w EXCEPT !.exc = "", !.label = l] ELSE w

\* except Exception as e: logging.error(...)
CatchLogOnly(w) == IF w.exc # "" THEN [w EXCEPT !.exc = ""] ELSE w

\* with slicer.util.tryWithErrorDisplay(...): an exception that reaches it is shown
TryWithErrorDisplay(w) == CatchErrorDisplay(w)

\* a call into the SDK or the DICOM database that either returns or raises
Call(w, ok) == IF w.exc = "" /\ ~ok THEN [w EXCEPT !.exc = "Exception"] ELSE w

\* a call of self.npcs.new_job, upload_dataset_from_path or run_job
JobCall(w, name, ok) ==
    IF w.exc # "" THEN w ELSE Call([w EXCEPT !.calls = Append(@, name)], ok)

\* if not selectedFolderPath or not selectedPatient
ValidSelection(folder, sel) == folder # "" /\ sel # ""

\* onValidateKeyButton, after configure_config (w) has run
ValidateRest(w, conn, dd, oc, io) ==
    LET w1 == SetInfoLabel(w, Label("Validating API key... "))
        w2 == Call(w1, conn)                                  \* neuropacs.init, connect
        w3 == SetInfoLabel(w2, Label("API key validated, populating... "))
        w4 == Call(w3, dd)                                    \* populateDatasetDropdown
        w5 == populateOrderTable(w4, oc, io)
        w6 == SetInfoLabel(w5, NoLabel)
    IN TryWithErrorDisplay(CatchLabel(w6, Label("API key validation failed.")))

\* onRefreshButton
RefreshHandler(w, dd, oc, io) ==
    LET w1 == SetInfoLabel(w, Label("Refreshing... "))
        w2 == Call(w1, dd)                                    \* populateDatasetDropdown
        w3 == populateOrderTable(w2, oc, io)
        w4 == SetInfoLabel(w3, NoLabel)
    IN TryWithErrorDisplay(w4)

\* (mutant) del self.neuropacsOrderMap[order_id] without the membership test
MutDeleteUnchecked(w, order_id, io1, oc, io2) ==
    LET w1 == SetInfoLabel(w, OrderLabel("Deleting order", order_id))
        w2 == IF Has(w1.map, order_id)
              THEN [w1 EXCEPT !.map = DictDel(@, order_id)]
              ELSE [w1 EXCEPT !.exc = "KeyError"]
        w3 == save_config(w2, io1)
        w4 == SetInfoLabel(w3, OrderLabel("Order deleted.", order_id))
        w5 == populateOrderTable(w4, oc, io2)
        w6 == SetInfoLabel(w5, NoLabel)
    IN TryWithErrorDisplay(CatchLogOnly(w6))

\* __deleteOrder
DeleteOrderHandler(w, order_id, io1, oc, io2) ==
    LET w1 == SetInfoLabel(w, OrderLabel("Deleting order", order_id))
        w2 == [w1 EXCEPT !.map = IF Has(@, order_id) THEN DictDel(@, order_id) ELSE @]
        w3 == save_config(w2, io1)
        w4 == SetInfoLabel(w3, OrderLabel("Order deleted.", order_id))
        w5 == populateOrderTable(w4, oc, io2)
        w6 == SetInfoLabel(w5, NoLabel)
    IN TryWithErrorDisplay(CatchLogOnly(w6))

RemoteSteps == {"ok", "new_job_error", "upload_error", "run_error"}

\* (mutant) the selection is checked after new_job has been called
MutCheckAfterNewJob(w, folder, sel, remote, orderId, io1, oc, io2) ==
    LET w0 == SetInfoLabel(w, Label("Uploading... (this may take a few minutes)"))
        w1 == JobCall(w0, "new_job", remote # "new_job_error")
        w2 == Call(w1, ValidSelection(folder, sel))
        w3 == JobCall(w2, "upload_dataset_from_path", remote # "upload_error")
        w4 == SetInfoLabel(w3, Label("Running order..."))
        w5 == JobCall(w4, "run_job", remote # "run_error")
        w6 == SetInfoLabel(w5, OrderLabel("Order started...", orderId))
        w7 == storeNeuropacsOrder(w6, sel, orderId, io1)
        w8 == populateOrderTable(w7, oc, io2)
        w9 == SetInfoLabel(w8, NoLabel)
    IN TryWithErrorDisplay(CatchLabel(w9, Label("Failed to run analysis.")))

\* (mutant) the order is stored after the upload, before run_job is called
MutStoreBeforeRun(w, folder, sel, remote, orderId, io1, oc, io2) ==
    LET w0 == Call(w, ValidSelection(folder, sel))
        w1 == SetInfoLabel(w0, Label("Uploading... (this may take a few minutes)"))
        w2 == JobCall(w1, "new_job", remote # "new_job_error")
        w3 == JobCall(w2, "upload_dataset_from_path", remote # "upload_error")
        w4 == SetInfoLabel(w3, Label("Running order..."))
        w5 == storeNeuropacsOrder(w4, sel, orderId, io1)
        w6 == JobCall(w5, "run_job", remote # "run_error")
        w7 == SetInfoLabel(w6, OrderLabel("Order started...", orderId))
        w8 == populateOrderTable(w7, oc, io2)
        w9 == SetInfoLabel(w8, NoLabel)
    IN TryWithErrorDisplay(CatchLabel(w9, Label("Failed to run analysis.")))

\* (mutant) the order is stored with the id at hand before new_job is called
MutStoreBeforeNewJob(w, folder, sel, remote, orderId, io1, oc, io2) ==
    LET w0 == Call(w, ValidSelection(folder, sel))
        w1 == SetInfoLabel(w0, Label("Uploading... (this may take a few minutes)"))
        w2 == storeNeuropacsOrder(w1, sel, orderId, io1)
        w3 == JobCall(w2, "new_job", remote # "new_job_error")
        w4 == JobCall(w3, "upload_dataset_from_path", remote # "upload_error")
        w5 == SetInfoLabel(w4, Label("Running order..."))
        w6 == JobCall(w5, "run_job", remote # "run_error")
        w7 == SetInfoLabel(w6, OrderLabel("Order started...", orderId))
        w8 == populateOrderTable(w7, oc, io2)
        w9 == SetInfoLabel(w8, NoLabel)
    IN TryWithErrorDisplay(CatchLabel(w9, Label("Failed to run analysis.")))

\* onNeuropacsButton: folder and sel are the data and the text of the selected
\* item of the dataset dropdown ("" when there is none), remote says which SDK
\* call fails, orderId is what new_job returns
NeuropacsHandler(w, folder, sel, remote, orderId, io1, oc, io2) ==
    LET w0 == Call(w, ValidSelection(folder, sel))
        w1 == SetInfoLabel(w0, Label("Uploading... (this may take a few minutes)"))
        w2 == JobCall(w1, "new_job", remote # "new_job_error")
        w3 == JobCall(w2, "upload_dataset_from_path", remote # "upload_error")
        w4 == SetInfoLabel(w3, Label("Running order..."))
        w5 == JobCall(w4, "run_job", remote # "run_error")
        w6 == SetInfoLabel(w5, OrderLabel("Order started...", orderId))
        w7 == storeNeuropacsOrder(w6, sel, orderId, io1)
        w8 == populateOrderTable(w7, oc, io2)
        w9 == SetInfoLabel(w8, NoLabel)
    IN TryWithErrorDisplay(CatchLabel(w9, Label("Failed to run analysis.")))

---------------------------------------------------------------------------
\* The state machine

NoLast ==
    [op |-> "init", arg |-> "", found |-> "", configured |-> FALSE, loaded |-> <<>>,
     log |-> <<>>, cyc |-> NoCycle, dialog |-> FALSE, calls |-> <<>>]

Init ==
    /\ neuropacsOrderMap = <<>>
    /\ neuropacsConfigPath = "p1"
    /\ files \in [Paths -> {AbsentFile, EmptyFile, CorruptFile}]
    /\ tableWidget = <<>>
    /\ infoLabel = NoLabel
    /\ actionsEnabled = FALSE
    /\ issued = {}
    /\ ioFaults = 0
    /\ last = NoLast
    /\ loadedPath = ""
    /\ running = <<>>

\* the handler's result becomes the widget's state
CommitState(w, op, arg, found, configured, loaded) ==
    /\ neuropacsOrderMap' = w.map
    /\ files' = w.files
    /\ tableWidget' = w.table
    /\ infoLabel' = w.label
    /\ last' = [op |-> op, arg |-> arg, found |-> found, configured |-> configured,
                loaded |-> loaded, log |-> w.log, cyc |-> w.cyc, dialog |-> w.dialog,
                calls |-> w.calls]

\* the writes of the handler that failed after the file was opened
WriteFaults(w) == Cardinality({i \in 1..Len(w.log) : w.log[i].io = "write_error"})

Commit(w, op, arg, found, configured, loaded) ==
    /\ CommitState(w, op, arg, found, configured, loaded)
    /\ ioFaults' = ioFaults + WriteFaults(w)

\* the inputs a handler reads: those of a step it does not reach are not drawn
IoFor(reached, failed) ==
    IF reached /\ ioFaults + failed < MaxIoFaults THEN IoOutcomes ELSE {"ok"}
Failed(io) == IF io = "ok" THEN 0 ELSE 1

\* what the directory checks find: a fault of the directory is a fault of the
\* file system
DirFor == IF ioFaults < MaxIoFaults THEN DirStates ELSE {"ok"}

\* a write in a directory that is missing or not writable: a file that does not
\* exist cannot be created there, so open raises
IoIn(dir, file, reached, failed) ==
    IF dir # "ok" /\ file.kind = "absent"
    THEN (IF reached THEN {"open_error"} ELSE {"ok"})
    ELSE IoFor(reached, failed)
OcFor(reached, keys) == IF reached THEN [keys -> StatusOutcomes] ELSE {<<>>}
BoolFor(reached) == IF reached THEN BOOLEAN ELSE {TRUE}

\* whether populateOrderTable, with these outcomes, gets to __deleteExpiredOrders
SweepReached(m, oc) ==
    FillRows(m, oc, 1, [table |-> setRowCount(<<>>, Len(m)), rowCount |-> 0,
                        exp |-> <<>>, status |-> Unbound, exc |-> ""]).exc = ""

\* on_config_path_changed
on_config_path_changed ==
    \E new_path \in Paths \cup {""} :
        /\ neuropacsConfigPath' = IF new_path = "" THEN neuropacsConfigPath ELSE new_path
        /\ last' = IF new_path = "" THEN last ELSE [NoLast EXCEPT !.op = "path"]
        /\ UNCHANGED <<neuropacsOrderMap, files, tableWidget, infoLabel, actionsEnabled,
                       issued, ioFaults, loadedPath, running>>

\* onValidateKeyButton: enabled until a validation succeeds
onValidateKeyButton ==
    /\ ~actionsEnabled
    /\ \E dir \in DirFor :
         /\ dir = "makedirs_error" => files[neuropacsConfigPath].kind = "absent"
         /\ \E io1 \in IoFor(dir = "ok" /\ files[neuropacsConfigPath].kind \in {"absent", "empty"}, 0) :
              LET w0 == configure_config(Begin, neuropacsConfigPath, dir, io1)
                  w1 == SetInfoLabel(w0, Label("Setting up Python requirements... "))
              IN \E conn \in BOOLEAN :
                   \E dd \in BoolFor(conn) :
                     \E oc \in OcFor(conn /\ dd, Keys(w1.map)) :
                       \E io2 \in IoIn(dir, files[neuropacsConfigPath],
                                        conn /\ dd /\ SweepReached(w1.map, oc),
                                        Failed(io1) + Failed(dir)) :
                          \E w \in {ValidateRest(w1, conn, dd, oc, io2)} :
                             /\ CommitState(w, "validate", "", files[neuropacsConfigPath].kind,
                                            dir = "ok", w0.map)
                             /\ ioFaults' = ioFaults + WriteFaults(w) + Failed(dir)
                             /\ actionsEnabled' = (w.label = NoLabel)
                             /\ loadedPath' =
                                   IF dir = "ok" /\ files[neuropacsConfigPath].kind # "corrupt"
                                   THEN neuropacsConfigPath ELSE loadedPath
    /\ UNCHANGED <<neuropacsConfigPath, issued, running>>

\* onRefreshButton
onRefreshButton ==
    /\ actionsEnabled
    /\ \E dd \in BOOLEAN :
         \E oc \in OcFor(dd, Keys(neuropacsOrderMap)) :
           \E io \in IoFor(dd /\ SweepReached(neuropacsOrderMap, oc), 0) :
              \E w \in {RefreshHandler(Begin, dd, oc, io)} : Commit(w, "refresh", "", "", FALSE, <<>>)
    /\ UNCHANGED <<neuropacsConfigPath, actionsEnabled, issued, loadedPath, running>>

\* the Delete button of a row of the listing
deleteOrder ==
    /\ \E r \in 1..Len(tableWidget) :
         /\ tableWidget[r].order # ""
         /\ LET order_id == tableWidget[r].order
                m == DictDel(neuropacsOrderMap, order_id)
            IN \E io1 \in IoFor(TRUE, 0) :
                 \E oc \in OcFor(io1 = "ok", Keys(m)) :
                   \E io2 \in IoFor(io1 = "ok" /\ SweepReached(m, oc), 0) :
                      \E w \in {DeleteOrderHandler(Begin, order_id, io1, oc, io2)} :
                         Commit(w, "delete", order_id,
                                IF Has(neuropacsOrderMap, order_id) THEN "present" ELSE "missing",
                                FALSE, <<>>)
    /\ UNCHANGED <<neuropacsConfigPath, actionsEnabled, issued, loadedPath, running>>

\* new_job returns ids it has not returned before: the ids are opaque, so the
\* model names them in the order they are issued
NewJobIds == IF Cardinality(issued) < MaxJobs THEN {JobNames[Cardinality(issued) + 1]} ELSE {}

\* the items the dataset dropdown can have selected: sel is the text, "" when
\* there is none; the names are opaque, so the first one submitted is called Alice
Selections == IF issued = {} THEN {"", "Alice"} ELSE Patients \cup {""}

\* the data of the selected item: the dataset folder, "" when there is none
Folders == {"", "dir"}

\* onNeuropacsButton
onNeuropacsButton ==
    /\ actionsEnabled
    /\ \E sel \in Selections, folder \in Folders :
         LET valid == ValidSelection(folder, sel)
         IN \E remote \in (IF valid THEN RemoteSteps ELSE {"ok"}) :
              \E orderId \in (IF valid THEN NewJobIds ELSE {""}) :
                \E io1 \in IoFor(valid /\ remote = "ok", 0) :
                  LET stored == valid /\ remote = "ok" /\ io1 = "ok"
                      m == DictSet(neuropacsOrderMap, orderId, sel)
                  IN \E oc \in OcFor(stored, Keys(m)) :
                       \E io2 \in IoFor(stored /\ SweepReached(m, oc), 0) :
                          /\ \E w \in {NeuropacsHandler(Begin, folder, sel, remote, orderId,
                                                        io1, oc, io2)} :
                                Commit(w, "submit", orderId,
                                       IF valid THEN remote ELSE "invalid", FALSE, <<>>)
                          /\ issued' = IF valid /\ remote # "new_job_error"
                                       THEN issued \cup {orderId} ELSE issued
    /\ UNCHANGED <<neuropacsConfigPath, actionsEnabled, loadedPath, running>>

\* the module is closed and opened again: __init__ and setup
Restart ==
    /\ neuropacsOrderMap' = <<>>
    /\ tableWidget' = <<>>
    /\ infoLabel' = NoLabel
    /\ actionsEnabled' = FALSE
    /\ last' = [NoLast EXCEPT !.op = "restart"]
    /\ loadedPath' = ""
    /\ UNCHANGED <<neuropacsConfigPath, files, issued, ioFaults, running>>

Next ==
    \/ on_config_path_changed
    \/ onValidateKeyButton
    \/ onRefreshButton
    \/ deleteOrder
    \/ onNeuropacsButton
    \/ Restart

Spec == Init /\ [][Next]_vars

---------------------------------------------------------------------------
\* __deleteExpiredOrders on its own: called on the ledgers a session can hold,
\* with any list of ids

\* the keys in the order a session inserts them
SweepOrder == <<"TEST">> \o SubSeq(JobNames, 1, MaxJobs)

SweepIds == {SweepOrder[i] : i \in 1..Len(SweepOrder)}

SweepLedgers ==
    {SelectSeq([i \in 1..Len(SweepOrder) |->
                   [order |-> SweepOrder[i],
                    patient |-> IF SweepOrder[i] = "TEST" THEN "TEST" ELSE pat[SweepOrder[i]]]],
               LAMBDA e : e.order \in S) :
        S \in SUBSET SweepIds, pat \in [SweepIds \ {"TEST"} -> Patients]}

ExpLists == UNION {[1..n -> SweepIds] : n \in 0..MaxExp}

InitSweep ==
    /\ neuropacsOrderMap \in SweepLedgers
    /\ neuropacsConfigPath = "p1"
    /\ files = [p \in Paths |-> IF p = "p1" THEN json_dump(neuropacsOrderMap) ELSE AbsentFile]
    /\ tableWidget = <<>>
    /\ infoLabel = NoLabel
    /\ actionsEnabled = TRUE
    /\ issued = Keys(neuropacsOrderMap) \ {"TEST"}
    /\ ioFaults = 0
    /\ last = NoLast
    /\ loadedPath = "p1"
    /\ running = <<>>

SweepCall ==
    /\ \E expired_orders \in ExpLists :
         \E io \in IoFor(TRUE, 0) :
           \E w \in {deleteExpiredOrders(Begin, expired_orders, io)} :
              /\ neuropacsOrderMap' = w.map
              /\ files' = w.files
              /\ ioFaults' = ioFaults + Failed(io)
              /\ last' = [NoLast EXCEPT !.op = "sweep", !.log = w.log,
                                        !.cyc = [NoCycle EXCEPT !.map = neuropacsOrderMap,
                                                                !.exp = expired_orders]]
    /\ UNCHANGED <<neuropacsConfigPath, tableWidget, infoLabel, actionsEnabled, issued,
                   loadedPath, running>>

NextSweep == SweepCall

SpecSweep == InitSweep /\ [][NextSweep]_vars

---------------------------------------------------------------------------
\* The handlers step by step. qt.QApplication.processEvents() dispatches the
\* events that are pending, clicks included, and no handler disables the button
\* it was started from: a handler that calls it may find another handler run
\* to its own processEvents, or to its end, before the call returns. A segment
\* is the code of a handler between two calls of processEvents.

Frame(h, arg, sel) == [h |-> h, pc |-> 1, arg |-> arg, sel |-> sel]

Top == running[Len(running)]

\* the segment raised (the handler's except and tryWithErrorDisplay end it), or
\* it was the handler's last one
Leave(w, lastSeg) ==
    running' = IF w.exc # "" \/ lastSeg
               THEN SubSeq(running, 1, Len(running) - 1)
               ELSE [running EXCEPT ![Len(running)].pc = @ + 1]

\* the event loop dispatches a click: at top level, or inside processEvents
CanDispatch == Len(running) < MaxDepth

\* onRefreshButton up to its first processEvents
BeginRefresh ==
    /\ CanDispatch
    /\ actionsEnabled
    /\ \E w \in {SetInfoLabel(Begin, Label("Refreshing... "))} :
          Commit(w, "refresh", "", "", FALSE, <<>>)
    /\ running' = Append(running, Frame("refresh", "", ""))
    /\ UNCHANGED <<neuropacsConfigPath, actionsEnabled, issued, loadedPath>>

\* onRefreshButton from there to its end
StepRefresh ==
    /\ running # <<>>
    /\ Top.h = "refresh"
    /\ \E dd \in BOOLEAN :
         \E oc \in OcFor(dd, Keys(neuropacsOrderMap)) :
           \E io \in IoFor(dd /\ SweepReached(neuropacsOrderMap, oc), 0) :
              \E w \in {SetInfoLabel(populateOrderTable(Call(Begin, dd), oc, io), NoLabel)} :
                 /\ Commit(TryWithErrorDisplay(w), "refresh", "", "", FALSE, <<>>)
                 /\ Leave(w, TRUE)
    /\ UNCHANGED <<neuropacsConfigPath, actionsEnabled, issued, loadedPath>>

\* __deleteOrder up to its first processEvents
BeginDelete ==
    /\ CanDispatch
    /\ \E r \in 1..Len(tableWidget) :
         /\ tableWidget[r].order # ""
         /\ \E w \in {SetInfoLabel(Begin, OrderLabel("Deleting order", tableWidget[r].order))} :
               Commit(w, "delete", tableWidget[r].order, "", FALSE, <<>>)
         /\ running' = Append(running, Frame("delete", tableWidget[r].order, ""))
    /\ UNCHANGED <<neuropacsConfigPath, actionsEnabled, issued, loadedPath>>

\* __deleteOrder: the removal and the save; then the re-rendering of the table
StepDelete ==
    /\ running # <<>>
    /\ Top.h = "delete"
    /\ \/ /\ Top.pc = 1
          /\ \E io \in IoFor(TRUE, 0) :
               \E w \in {SetInfoLabel(
                             save_config([Begin EXCEPT !.map = IF Has(@, Top.arg)
                                                               THEN DictDel(@, Top.arg) ELSE @],
                                         io),
                             OrderLabel("Order deleted.", Top.arg))} :
                  /\ Commit(TryWithErrorDisplay(CatchLogOnly(w)), "delete", Top.arg, "", FALSE, <<>>)
                  /\ Leave(w, FALSE)
       \/ /\ Top.pc = 2
          /\ \E oc \in OcFor(TRUE, Keys(neuropacsOrderMap)) :
               \E io \in IoFor(SweepReached(neuropacsOrderMap, oc), 0) :
                 \E w \in {SetInfoLabel(populateOrderTable(Begin, oc, io), NoLabel)} :
                    /\ Commit(TryWithErrorDisplay(CatchLogOnly(w)), "delete", Top.arg, "", FALSE, <<>>)
                    /\ Leave(w, TRUE)
    /\ UNCHANGED <<neuropacsConfigPath, actionsEnabled, issued, loadedPath>>

\* the submissions in progress that have not called new_job yet
PendingSubmits ==
    Cardinality({i \in 1..Len(running) : running[i].h = "submit" /\ running[i].pc = 1})

CatchSubmit(w) == TryWithErrorDisplay(CatchLabel(w, Label("Failed to run analysis.")))

\* onNeuropacsButton up to its first processEvents
BeginSubmit ==
    /\ CanDispatch
    /\ actionsEnabled
    /\ \E sel \in Selections, folder \in Folders :
         /\ ValidSelection(folder, sel) => Cardinality(issued) + PendingSubmits < MaxJobs
         /\ \E w \in {SetInfoLabel(Call(Begin, ValidSelection(folder, sel)),
                                   Label("Uploading... (this may take a few minutes)"))} :
               /\ Commit(CatchSubmit(w), "submit", "", "", FALSE, <<>>)
               /\ running' = IF w.exc # "" THEN running
                              ELSE Append(running, Frame("submit", "", sel))
    /\ UNCHANGED <<neuropacsConfigPath, actionsEnabled, issued, loadedPath>>

\* onNeuropacsButton: new_job and the upload; run_job; the store and the refresh
StepSubmit ==
    /\ running # <<>>
    /\ Top.h = "submit"
    /\ \/ /\ Top.pc = 1
          /\ \E remote \in {"ok", "new_job_error", "upload_error"} :
               \E orderId \in NewJobIds :
                 \E w \in {SetInfoLabel(
                               JobCall(JobCall(Begin, "new_job", remote # "new_job_error"),
                                       "upload_dataset_from_path", remote # "upload_error"),
                               Label("Running order..."))} :
                    /\ Commit(CatchSubmit(w), "submit", orderId, "", FALSE, <<>>)
                    /\ running' = IF w.exc # "" THEN SubSeq(running, 1, Len(running) - 1)
                                   ELSE [running EXCEPT ![Len(running)].pc = 2,
                                                        ![Len(running)].arg = orderId]
                    /\ issued' = IF remote # "new_job_error"
                                 THEN issued \cup {orderId} ELSE issued
       \/ /\ Top.pc = 2
          /\ \E ok \in BOOLEAN :
               \E w \in {SetInfoLabel(JobCall(Begin, "run_job", ok),
                                     OrderLabel("Order started...", Top.arg))} :
                  /\ Commit(CatchSubmit(w), "submit", Top.arg, "", FALSE, <<>>)
                  /\ Leave(w, FALSE)
          /\ UNCHANGED issued
       \/ /\ Top.pc = 3
          /\ \E io1 \in IoFor(TRUE, 0) :
               LET m == DictSet(neuropacsOrderMap, Top.arg, Top.sel)
               IN \E oc \in OcFor(io1 = "ok", Keys(m)) :
                    \E io2 \in IoFor(io1 = "ok" /\ SweepReached(m, oc), 0) :
                      \E w \in {SetInfoLabel(
                                    populateOrderTable(
                                        storeNeuropacsOrder(Begin, Top.sel, Top.arg, io1),
                                        oc, io2),
                                    NoLabel)} :
                         /\ Commit(CatchSubmit(w), "submit", Top.arg, "", FALSE, <<>>)
                         /\ Leave(w, TRUE)
          /\ UNCHANGED issued
    /\ UNCHANGED <<neuropacsConfigPath, actionsEnabled, loadedPath>>

\* the widget after a first validation that found no file at the path
InitPump ==
    /\ neuropacsOrderMap = default_config
    /\ neuropacsConfigPath = "p1"
    /\ files = [p \in Paths |-> IF p = "p1" THEN json_dump(default_config) ELSE AbsentFile]
    /\ tableWidget = <<[order |-> "TEST", patient |-> "TEST", info |-> "Finished",
                        progress |-> 100, from |-> "TEST"]>>
    /\ infoLabel = NoLabel
    /\ actionsEnabled = TRUE
    /\ issued = {}
    /\ ioFaults = 0
    /\ last = NoLast
    /\ loadedPath = "p1"
    /\ running = <<>>

NextPump ==
    \/ BeginRefresh
    \/ StepRefresh
    \/ BeginDelete
    \/ StepDelete
    \/ BeginSubmit
    \/ StepSubmit

SpecPump == InitPump /\ [][NextPump]_vars

---------------------------------------------------------------------------
\* What the claims speak of

\* the persisted ledger document
PersistedFile == files[neuropacsConfigPath]

DocKeys(file) == {file.members[i][1] : i \in 1..Len(file.members)}

DocHas(file, k, v) ==
    file.kind = "json" /\ \E i \in 1..Len(file.members) : file.members[i] = <<k, v>>

\* a row of the listing shows order k
Shown(k) == \E r \in 1..Len(tableWidget) : tableWidget[r].order = k

\* the orders whose check_status had the given outcome in the last handler's cycle
CycleOrders(kind) == {k \in DOMAIN last.cyc.oc : last.cyc.oc[k] = kind}

NoIoFailure == \A i \in 1..Len(last.log) : last.log[i].io = "ok"

LastWriteOk == last.log # <<>> /\ last.log[Len(last.log)].io = "ok"

\* the user is told of a failure: an error dialog, or a failure text in the label
Surfaced ==
    \/ last.dialog
    \/ infoLabel.msg \in {"API key validation failed.", "Failed to run analysis."}

---------------------------------------------------------------------------
\* C1: after a refresh cycle in which no write failed, an order whose status
\* query failed with the "Bucket not found" signal is in neither the ledger nor
\* the persisted document, and no row of the listing shows it.
C1_ExpiredGone ==
    (last.cyc.ran /\ NoIoFailure) =>
        \A X \in CycleOrders("expired") :
            /\ ~Has(neuropacsOrderMap, X)
            /\ X \notin DocKeys(PersistedFile)
            /\ ~Shown(X)

\* C2: an order whose status query failed with another error is still in the
\* ledger after the cycle, with the subject it had; the document holds it with
\* that subject whenever the handler's last write succeeded, and a handler that
\* wrote nothing left the files as they were.
C2_TransientRetained ==
    [][last'.cyc.ran =>
         \A Y \in {k \in DOMAIN last'.cyc.oc : last'.cyc.oc[k] = "error"} :
            /\ Has(neuropacsOrderMap', Y)
            /\ Get(neuropacsOrderMap', Y) = Get(last'.cyc.map, Y)
            /\ (last'.log # <<>> /\ last'.log[Len(last'.log)].io = "ok") =>
                  DocHas(files'[neuropacsConfigPath'], Y, Get(last'.cyc.map, Y))
            /\ last'.log = <<>> => files' = files]_vars

\* a cycle ran to its end with an order whose status query failed with a
\* network error, and the ledger was saved
C2_Witness ==
    /\ last.op = "refresh"
    /\ last.cyc.completed
    /\ LastWriteOk
    /\ CycleOrders("error") # {}
    /\ CycleOrders("expired") # {}

\* C3: when a status query fails with an error other than the expiry signal, the
\* cycle does not complete normally with a row for that order whose stage
\* description and progress come from another order's status.
C3_TransientSurfaced ==
    last.cyc.ran =>
        \A Y \in CycleOrders("error") :
            ~(/\ last.cyc.completed
              /\ \E r \in 1..Len(tableWidget) :
                    tableWidget[r].order = Y /\ tableWidget[r].from # Y)

---------------------------------------------------------------------------
\* the last handler changed the ledger: a submission stored its order, a delete
\* ran, or a refresh cycle got to its sweep
Mutated ==
    \/ last.op = "submit" /\ last.arg # "" /\ Has(neuropacsOrderMap, last.arg)
    \/ last.op = "delete"
    \/ last.cyc.completed

\* C4: write-through. Every write that did not fail left the file holding the
\* mapping of that moment, and after a handler that changed the ledger without
\* an I/O failure the persisted document equals the in-memory mapping.
C4_WriteThrough ==
    /\ \A i \in 1..Len(last.log) : last.log[i].io = "ok" => last.log[i].written
    /\ (Mutated /\ NoIoFailure) => Persisted(PersistedFile, neuropacsOrderMap)
    /\ (Mutated /\ NoIoFailure) => PersistedFile = json_dump(neuropacsOrderMap)

\* the end of the scenario: j1 (Alice) and j2 (Bob) were added to an empty
\* ledger, j1 has just been deleted, and the file holds {j2: Bob}
C4_Witness ==
    /\ last.op = "delete"
    /\ last.arg = "j1"
    /\ NoIoFailure
    /\ neuropacsOrderMap = <<[order |-> "j2", patient |-> "Bob"]>>
    /\ PersistedFile = [kind |-> "json", members |-> << <<"j2", "Bob">> >>]

\* what a new widget gets from configure_config at the current path
FreshLoad ==
    configure_config(FreshWidget(files, neuropacsConfigPath), neuropacsConfigPath,
                     "ok", "ok").map

\* C5: round trip. After a handler whose last write succeeded, a new widget that
\* loads the same path gets exactly the in-memory mapping; and what a validation
\* loaded from an existing document is what that document held.
C5_RoundTrip ==
    /\ LastWriteOk => FreshLoad = neuropacsOrderMap
    /\ (last.op = "validate" /\ last.found = "json" /\ last.configured /\ last.log = <<>>)
           => PersistedFile = json_dump(last.loaded)

\* a new widget has loaded a document that holds an order added before
C5_Witness ==
    /\ last.op = "validate"
    /\ last.found = "json"
    /\ last.configured
    /\ Has(last.loaded, "j1")
    /\ Get(last.loaded, "j1") = "Alice"
    /\ neuropacsOrderMap = last.loaded

\* configure_config found no file at the path and its write succeeded
CreatedFromNothing ==
    /\ last.op = "validate"
    /\ last.found = "absent"
    /\ last.configured
    /\ last.log # <<>>
    /\ last.log[1].io = "ok"

\* C6 as stated: loading from a path with no file yields an empty ledger and
\* leaves an empty object at the path.
C6_EmptyLedger ==
    CreatedFromNothing =>
        /\ last.loaded = <<>>
        /\ Len(last.log) = 1 => PersistedFile = json_dump(<<>>)

TestEntry == <<[order |-> "TEST", patient |-> "TEST"]>>

\* C6: loading from a path with no file yields a ledger that holds exactly the
\* placeholder entry TEST -> TEST, and create_config leaves at the path a
\* document that holds exactly that entry.
C6_PlaceholderLedger ==
    CreatedFromNothing =>
        /\ last.loaded = TestEntry
        /\ last.log[1].by = "create_config"
        /\ last.log[1].written
        /\ Len(last.log) = 1 => PersistedFile = json_dump(TestEntry)

\* a validation that created the file and wrote nothing after that
C6_Witness == CreatedFromNothing /\ Len(last.log) = 1 /\ last.cyc.ran

\* C7 as stated: every key of the ledger was returned by new_job, and no key
\* appears twice.
C7_KeysIssued ==
    /\ Keys(neuropacsOrderMap) \subseteq issued
    /\ UniqueKeys(neuropacsOrderMap)

\* C7: every key of the ledger is the placeholder key TEST or was returned by
\* new_job, and no key appears twice.
C7_KeysIssuedOrTest ==
    /\ Keys(neuropacsOrderMap) \subseteq issued \cup {"TEST"}
    /\ UniqueKeys(neuropacsOrderMap)

\* the ledger holds the placeholder and two submitted orders
C7_Witness ==
    /\ Keys(neuropacsOrderMap) = {"TEST", "j1", "j2"}
    /\ issued = {"j1", "j2"}

\* the ids of the list given to the last sweep
SweptIds == {last.cyc.exp[i] : i \in 1..Len(last.cyc.exp)}

\* C8: a sweep called with any list of ids leaves the ledger it started from
\* without the entries whose key is in the list, and every other entry as it
\* was; absent ids raise nothing, so the one write of the sweep is reached; that
\* write is the only one and it holds the mapping after all removals.
C8_SweepExact ==
    last.op = "sweep" =>
        /\ neuropacsOrderMap = SelectSeq(last.cyc.map, LAMBDA e : e.order \notin SweptIds)
        /\ Len(last.log) = 1
        /\ last.log[1].by = "save_config"
        /\ last.log[1].io = "ok" =>
              /\ last.log[1].written
              /\ PersistedFile = json_dump(neuropacsOrderMap)

\* a sweep was given two ids, one of them in the ledger and one not, and left
\* another entry in place
C8_Witness ==
    /\ last.op = "sweep"
    /\ Len(last.cyc.exp) = 2
    /\ SweptIds \cap Keys(last.cyc.map) # {}
    /\ SweptIds \ Keys(last.cyc.map) # {}
    /\ neuropacsOrderMap # <<>>
    /\ last.log[1].io = "ok"

C9_WitnessMissing ==
    /\ last.op = "delete"
    /\ last.found = "missing"
    /\ NoIoFailure

\* C10: when a save_config of the last handler failed, the user was told (an
\* error dialog or a failure text in the label) and the ledger in memory holds
\* the result of the mutation.
C10_WriteFailureSurfaced ==
    (\E i \in 1..Len(last.log) : last.log[i].by = "save_config" /\ last.log[i].io # "ok") =>
        /\ Surfaced
        /\ last.op = "submit" => Has(neuropacsOrderMap, last.arg)
        /\ last.op = "delete" => ~Has(neuropacsOrderMap, last.arg)
        /\ \A i \in 1..Len(last.cyc.exp) : ~Has(neuropacsOrderMap, last.cyc.exp[i])

\* C11: handlers run one at a time: no handler begins while another one is in
\* progress, so at most one handler is in progress in any state.
C11_Serialized == Len(running) <= 1

\* C12: a submission with no subject or no dataset folder selected ends with the
\* failure text in the label, makes no call of new_job, upload or run_job,
\* queries no status, writes nothing, and leaves the ledger and the files as
\* they were.
C12_InvalidSelection ==
    [][(last'.op = "submit" /\ last'.found = "invalid") =>
         /\ infoLabel'.msg = "Failed to run analysis."
         /\ last'.calls = <<>>
         /\ ~last'.cyc.ran
         /\ last'.log = <<>>
         /\ neuropacsOrderMap' = neuropacsOrderMap
         /\ files' = files]_vars

\* a submission with an invalid selection has just ended, with orders in the ledger
C12_Witness ==
    /\ last.op = "submit"
    /\ last.found = "invalid"
    /\ Has(neuropacsOrderMap, "j1")

JobCalls == <<"new_job", "upload_dataset_from_path", "run_job">>

\* C13: a submission stores its order only after new_job, the upload and
\* run_job were called in that order and all returned; when one of them fails
\* the ledger and the files are as they were and hold no entry for the id.
C13_StoreAfterRun ==
    [][last'.op = "submit" =>
         /\ last'.log # <<>> => (last'.found = "ok" /\ last'.calls = JobCalls)
         /\ last'.found = "ok" => (last'.calls = JobCalls /\ last'.log # <<>>)
         /\ last'.found \in {"new_job_error", "upload_error", "run_error"} =>
               /\ neuropacsOrderMap' = neuropacsOrderMap
               /\ files' = files
               /\ ~Has(neuropacsOrderMap', last'.arg)
               /\ \A q \in Paths : last'.arg \notin DocKeys(files'[q])
               /\ last'.calls = SubSeq(JobCalls, 1, Len(last'.calls))]_vars

\* a submission whose three calls returned has stored its order
C13_Witness ==
    /\ last.op = "submit"
    /\ last.found = "ok"
    /\ last.calls = JobCalls
    /\ Has(neuropacsOrderMap, last.arg)
    /\ DocHas(PersistedFile, last.arg, Get(neuropacsOrderMap, last.arg))

\* C14: every save_config of the last handler that opened its file for writing
\* wrote to the path from which configure_config last loaded or created the
\* ledger.
C14_SavesToLoadedPath ==
    \A i \in 1..Len(last.log) :
        (last.log[i].by = "save_config" /\ last.log[i].io # "open_error")
            => last.log[i].path = loadedPath

\* a refresh after a change of the path has saved the ledger loaded from p1 over
\* the document at p2
PathDrift ==
    /\ last.op = "refresh"
    /\ loadedPath = "p1"
    /\ neuropacsConfigPath = "p2"
    /\ LastWriteOk
    /\ Has(neuropacsOrderMap, "j1")
    /\ files["p1"] = files["p2"]

====
